---- MODULE Spec2Model ----
(***************************************************************************)
(* Model of the fitness application's three mechanisms:                    *)
(*   - the model resolver   (src/app/api/utils/get-available-models.ts)    *)
(*   - the fallback loops of the request handlers                          *)
(*       generate, describe, analyze, voice-coach (Gemini) and tts         *)
(*   - the local image cache (src/hooks/useExerciseImage.ts)               *)
(* Strings whose contents the code inspects (includes, startsWith,         *)
(* replace) are sequences of one-character strings.                        *)
(***************************************************************************)
EXTENDS Integers, Sequences, FiniteSets, TLC

VARIABLES
    \* ---- resolver (pure function under test)
    rpc,          \* "start" | "done" ("off" when another part is run)
    fetchOutcome, \* what the model-listing call does
    resolved,     \* [threw, list]: outcome of getModelsToTry
    \* ---- request handler with its fallback loop
    pc,           \* "idle" | "loop" | "inflight" | "post" | "done" ("off")
    handler,      \* which route is serving the request
    request,      \* the request as the route's first lines see it
    modelNames,   \* the candidate list of the request
    idx,          \* position of the candidate the loop is at (1-based)
    attempts,     \* the attempts completed so far, in order
    lastError,    \* the loop's lastError
    result,       \* the loop's result / response
    response,     \* the HTTP response of the handler
    inflight,     \* positions whose provider call is awaited right now
    \* ---- local image cache
    storage,      \* localStorage: cache key -> stored item
    now,          \* Date.now(), in ms since the model's start
    ticks,        \* number of clock advances so far
    readLog,      \* the last getCachedImage call: what it saw and returned
    lastOp,       \* the cache operation that ran last
    raised,       \* whether that operation raised an error to its caller
    \* ---- one instance of the useExerciseImage hook
    hook,         \* its React state: url, loading, error, currentName
    requests,     \* the /api/image requests of the instance still in flight
    issued,       \* log of the requests it issued, in order, with outcomes
    calls,        \* number of calls made on the instance so far
    lastCall,     \* what the step taken last on the instance did
    \* ---- one request to /api/image
    image         \* where the route is, its locals, and its response

resolverVars == <<rpc, fetchOutcome, resolved>>
handlerVars == <<pc, handler, request, modelNames, idx, attempts, lastError, result,
                 response, inflight>>
cacheVars == <<storage, now, ticks, readLog, lastOp, raised>>
hookVars == <<hook, requests, issued, calls, lastCall>>
imageVars == <<image>>
vars == <<rpc, fetchOutcome, resolved, pc, handler, request, modelNames, idx,
          attempts,
          lastError, result, response, inflight, storage, now, ticks,
          readLog, lastOp, raised, hook, requests, issued, calls, lastCall,
          image>>

(***************************************************************************)
(* Bounds of the model.                                                    *)
(***************************************************************************)
\* longest model listing the provider returns
MaxLive == 3
\* number of times the clock advances
MaxTicks == 2
\* number of calls made on one hook instance
MaxCalls == 2

(***************************************************************************)
(* Strings.                                                                *)
(***************************************************************************)
S_preview == <<"p","r","e","v","i","e","w">>
S_experimental == <<"e","x","p","e","r","i","m","e","n","t","a","l">>
S_exp == <<"e","x","p">>
S_beta == <<"b","e","t","a">>
S_flash == <<"f","l","a","s","h">>
S_pro == <<"p","r","o">>
S_gemini == <<"g","e","m","i","n","i">>
S_gemma == <<"g","e","m","m","a">>
S_2_5 == <<"2",".","5">>
S_2_0 == <<"2",".","0">>
S_1_5 == <<"1",".","5">>
S_1_0 == <<"1",".","0">>
S_models_slash == <<"m","o","d","e","l","s","/">>
S_empty == <<>>

gemini_1_5_flash == <<"g","e","m","i","n","i","-","1",".","5","-","f","l","a","s","h">>
gemini_1_5_flash_8b == <<"g","e","m","i","n","i","-","1",".","5","-","f","l","a","s","h","-","8","b">>
gemini_1_5_flash_latest == <<"g","e","m","i","n","i","-","1",".","5","-","f","l","a","s","h","-","l","a","t","e","s","t">>
gemini_1_5_pro == <<"g","e","m","i","n","i","-","1",".","5","-","p","r","o">>
gemini_1_0_pro == <<"g","e","m","i","n","i","-","1",".","0","-","p","r","o">>
gemini_pro == <<"g","e","m","i","n","i","-","p","r","o">>
gemini_2_0_flash_exp == <<"g","e","m","i","n","i","-","2",".","0","-","f","l","a","s","h","-","e","x","p">>
gemini_2_5_pro_preview == <<"g","e","m","i","n","i","-","2",".","5","-","p","r","o","-","p","r","e","v","i","e","w">>
gemini_ultra == <<"g","e","m","i","n","i","-","u","l","t","r","a">>
gemma_3 == <<"g","e","m","m","a","-","3">>
aqa == <<"a","q","a">>
gemini_flash_latest == <<"g","e","m","i","n","i","-","f","l","a","s","h","-","l","a","t","e","s","t">>
gemini_1_5_pro_beta == <<"g","e","m","i","n","i","-","1",".","5","-","p","r","o","-","b","e","t","a">>
embedding_001 == <<"e","m","b","e","d","d","i","n","g","-","0","0","1">>

\* JavaScript's undefined, where a string was expected
Undefined == <<"undefined">>

\* String.prototype.includes
Includes(s, sub) ==
    \E i \in 0..(Len(s) - Len(sub)) : SubSeq(s, i + 1, i + Len(sub)) = sub

\* String.prototype.startsWith
StartsWith(s, prefix) ==
    /\ Len(s) >= Len(prefix)
    /\ SubSeq(s, 1, Len(prefix)) = prefix

\* String.prototype.replace(pattern, ''), pattern a string: the first
\* occurrence is removed
RemoveFirst(s, pattern) ==
    IF Includes(s, pattern)
    THEN LET i == CHOOSE k \in 0..(Len(s) - Len(pattern)) :
                     /\ SubSeq(s, k + 1, k + Len(pattern)) = pattern
                     /\ \A j \in 0..(k - 1) :
                            SubSeq(s, j + 1, j + Len(pattern)) # pattern
         IN SubSeq(s, 1, i) \o SubSeq(s, i + Len(pattern) + 1, Len(s))
    ELSE s

Range(f) == {f[i] : i \in DOMAIN f}

\* every sequence over S of length at most n
SeqUpTo(S, n) == UNION {[1..k -> S] : k \in 0..n}

(***************************************************************************)
(* Model resolver: getAvailableModels and getModelsToTry.                  *)
(***************************************************************************)
\* a model descriptor of the listing: its name (or undefined) and its
\* supportedGenerationMethods (the empty set also stands for a missing field)
Descriptor(name, methods) == [name |-> name, methods |-> methods]

DescriptorPool ==
    { Descriptor(S_models_slash \o gemini_1_5_flash, {"generateContent"}),
      Descriptor(S_models_slash \o gemini_1_5_pro, {"generateContent"}),
      Descriptor(S_models_slash \o gemini_2_0_flash_exp, {"generateContent"}),
      Descriptor(S_models_slash \o gemini_2_5_pro_preview, {"generateContent"}),
      Descriptor(S_models_slash \o gemini_ultra, {"generateContent"}),
      Descriptor(S_models_slash \o gemma_3, {"generateContent"}),
      Descriptor(S_models_slash \o aqa, {"generateContent"}),
      Descriptor(S_models_slash \o gemini_flash_latest, {"generateContent"}),
      Descriptor(S_models_slash \o gemini_1_5_pro_beta, {"generateContent"}),
      Descriptor(S_models_slash \o embedding_001, {"embedContent"}),
      Descriptor(gemini_1_0_pro, {"generateContent", "countTokens"}),
      Descriptor(Undefined, {"generateContent"}) }

\* what fetch(url) and response.json() can do
FetchNetworkError == [kind |-> "network", models |-> <<>>]
FetchNotOk == [kind |-> "notOk", models |-> <<>>]
FetchBadJson == [kind |-> "badJson", models |-> <<>>]
FetchNoModelsField == [kind |-> "noModels", models |-> <<>>]
FetchBody(models) == [kind |-> "body", models |-> models]

FetchOutcomes ==
    {FetchNetworkError, FetchNotOk, FetchBadJson, FetchNoModelsField}
        \cup {FetchBody(ms) : ms \in SeqUpTo(DescriptorPool, MaxLive)}

\* model.name?.replace('models/', '') || model.name
StripName(name) ==
    IF name = Undefined THEN Undefined
    ELSE IF RemoveFirst(name, S_models_slash) # S_empty
         THEN RemoveFirst(name, S_models_slash)
         ELSE name

SupportsGenerate(d) == "generateContent" \in d.methods

getAvailableModels(outcome) ==
    IF outcome.kind = "body"
    THEN LET kept == SelectSeq(outcome.models, SupportsGenerate)
         IN [i \in 1..Len(kept) |-> StripName(kept[i].name)]
    ELSE <<>>

IsStable(m) ==
    /\ ~Includes(m, S_preview)
    /\ ~Includes(m, S_experimental)
    /\ ~Includes(m, S_exp)
    /\ ~Includes(m, S_beta)

HasVersion(m) ==
    \/ Includes(m, S_2_5)
    \/ Includes(m, S_2_0)
    \/ Includes(m, S_1_5)
    \/ Includes(m, S_1_0)

IsGeminiFlash(m) ==
    /\ Includes(m, S_flash)
    /\ StartsWith(m, S_gemini)
    /\ HasVersion(m)

IsGeminiPro(m) ==
    /\ Includes(m, S_pro)
    /\ ~Includes(m, S_flash)
    /\ StartsWith(m, S_gemini)
    /\ HasVersion(m)

IsOtherGemini(m) ==
    /\ StartsWith(m, S_gemini)
    /\ ~Includes(m, S_flash)
    /\ ~Includes(m, S_pro)

IsGemma(m) == StartsWith(m, S_gemma)

IsOtherStable(m) ==
    /\ ~StartsWith(m, S_gemini)
    /\ ~StartsWith(m, S_gemma)

IsPreview(m) ==
    \/ Includes(m, S_preview)
    \/ Includes(m, S_experimental)
    \/ Includes(m, S_exp)

StaticModels ==
    << gemini_1_5_flash, gemini_1_5_flash_8b, gemini_1_5_flash_latest,
       gemini_1_5_pro, gemini_1_0_pro, gemini_pro >>

\* mutant: the preview bucket is put first
PrioritizeModels_PreviewFirst(availableModels) ==
    LET stableModels == SelectSeq(availableModels, IsStable)
    IN SelectSeq(availableModels, IsPreview)
           \o SelectSeq(stableModels, IsGeminiFlash)
           \o SelectSeq(stableModels, IsGeminiPro)
           \o SelectSeq(stableModels, IsOtherGemini)
           \o SelectSeq(stableModels, IsOtherStable)
           \o SelectSeq(stableModels, IsGemma)

\* mutant: the static list is appended to the live ordering
PrioritizeModels_PlusStatic(availableModels) ==
    LET stableModels == SelectSeq(availableModels, IsStable)
    IN SelectSeq(stableModels, IsGeminiFlash)
           \o SelectSeq(stableModels, IsGeminiPro)
           \o SelectSeq(stableModels, IsOtherGemini)
           \o SelectSeq(stableModels, IsOtherStable)
           \o SelectSeq(stableModels, IsGemma)
           \o SelectSeq(availableModels, IsPreview)
           \o StaticModels

\* mutant: the pro bucket is put before the flash bucket
PrioritizeModels_ProFirst(availableModels) ==
    LET stableModels == SelectSeq(availableModels, IsStable)
    IN SelectSeq(stableModels, IsGeminiPro)
           \o SelectSeq(stableModels, IsGeminiFlash)
           \o SelectSeq(stableModels, IsOtherGemini)
           \o SelectSeq(stableModels, IsOtherStable)
           \o SelectSeq(stableModels, IsGemma)
           \o SelectSeq(availableModels, IsPreview)

\* the ordering of a non-empty live list of strings
PrioritizeModels(availableModels) ==
    LET stableModels == SelectSeq(availableModels, IsStable)
        geminiFlash == SelectSeq(stableModels, IsGeminiFlash)
        geminiPro == SelectSeq(stableModels, IsGeminiPro)
        otherGemini == SelectSeq(stableModels, IsOtherGemini)
        gemmaModels == SelectSeq(stableModels, IsGemma)
        otherStable == SelectSeq(stableModels, IsOtherStable)
        previewModels == SelectSeq(availableModels, IsPreview)
    IN geminiFlash \o geminiPro \o otherGemini \o otherStable
           \o gemmaModels \o previewModels

\* getModelsToTry: m.includes on an undefined element of the live list
\* raises a TypeError, which nothing in the function catches
getModelsToTry(outcome) ==
    LET availableModels == getAvailableModels(outcome)
    IN IF Len(availableModels) > 0
       THEN IF Undefined \in Range(availableModels)
            THEN [threw |-> TRUE, list |-> <<>>]
            ELSE [threw |-> FALSE, list |-> PrioritizeModels(availableModels)]
       ELSE [threw |-> FALSE, list |-> StaticModels]

NotResolved == [threw |-> FALSE, list |-> <<>>]

ResolverIdle ==
    /\ rpc = "off"
    /\ fetchOutcome = FetchNetworkError
    /\ resolved = NotResolved

HandlerIdle ==
    /\ pc = "off"
    /\ handler = "none"
    /\ request = "none"
    /\ modelNames = <<>>
    /\ idx = 0
    /\ attempts = <<>>
    /\ lastError = [status |-> 0, msg |-> "none", model |-> <<>>]
    /\ result = "none"
    /\ response = [status |-> 0]
    /\ inflight = {}

HookIdle ==
    /\ hook = <<>>
    /\ requests = {}
    /\ issued = <<>>
    /\ calls = 0
    /\ lastCall = <<>>

ImageIdle == image = <<>>

CacheIdle ==
    /\ storage = <<>>
    /\ now = 0
    /\ ticks = 0
    /\ readLog = <<>>
    /\ lastOp = <<>>
    /\ raised = FALSE

\* ---- the resolver applied to every outcome of the listing call
ResolverInit ==
    /\ rpc = "start"
    /\ fetchOutcome \in FetchOutcomes
    /\ resolved = NotResolved
    /\ HandlerIdle
    /\ CacheIdle
    /\ HookIdle
    /\ ImageIdle

Resolve ==
    /\ rpc = "start"
    /\ resolved' = getModelsToTry(fetchOutcome)
    /\ rpc' = "done"
    /\ UNCHANGED <<fetchOutcome, handlerVars, cacheVars, hookVars, imageVars>>

ResolverNext == Resolve

SpecResolver == ResolverInit /\ [][ResolverNext]_vars

(***************************************************************************)
(* Request handlers and their fallback loops.                              *)
(***************************************************************************)
GeminiHandlers == {"generate", "describe", "analyze", "voice-coach"}
Handlers == GeminiHandlers \cup {"tts"}
\* the routes that read a request body: the five above and /api/image,
\* which has no fallback loop
RequestHandlers == Handlers \cup {"image"}

\* the ElevenLabs models of the tts route; the route never looks inside
\* these names, so each is a one-element string
TtsModels ==
    << <<"eleven_turbo_v2_5">>, <<"eleven_turbo_v2">>,
       <<"eleven_multilingual_v2">>, <<"eleven_monolingual_v1">> >>

\* error.status of a failed attempt; 0 stands for an error with no status
ErrorStatuses == {503, 404, 400, 401, 403, 429, 500, 0}

\* what the text of error.message holds, of the things the handlers look
\* for in it; a "not found" message names the model that was asked for
ErrorMessages == {"plain", "API key", "not found", "safety"}

\* what the text of a successful generation looks like to the parsers
Payloads == {"json", "fencedJson", "proseOnly", "brokenBraces", "wrongShape"}

NoError == [status |-> 0, msg |-> "none", model |-> <<>>]
UpstreamError(status, msg, model) ==
    [status |-> status, msg |-> msg, model |-> model]
NoResult == "none"

\* an HTTP response: its status, which message it carries, the candidate
\* list joined into the message (if any), the upstream error whose
\* message it embeds (if any), and the payload of a success
Resp(status, kind, tried, err, payload) ==
    [status |-> status, kind |-> kind, tried |-> tried, err |-> err,
     payload |-> payload]
NoResponse == Resp(0, "none", <<>>, NoError, NoResult)

\* the listing outcomes the handlers are run against
HandlerFetchOutcomes ==
    { FetchNetworkError,
      FetchBody(<< Descriptor(S_models_slash \o gemini_1_5_pro, {"generateContent"}),
                   Descriptor(S_models_slash \o gemini_1_5_flash, {"generateContent"}) >>),
      FetchBody(<< Descriptor(S_models_slash \o gemini_2_0_flash_exp, {"generateContent"}),
                   Descriptor(S_models_slash \o gemini_ultra, {"generateContent"}),
                   Descriptor(S_models_slash \o gemma_3, {"generateContent"}) >>),
      FetchBody(<< Descriptor(S_models_slash \o aqa, {"generateContent"}) >>),
      FetchBody(<< Descriptor(S_models_slash \o gemini_flash_latest, {"generateContent"}) >>),
      FetchBody(<< Descriptor(Undefined, {"generateContent"}) >>) }

\* the request as the handler's first lines see it
RequestKinds == {"unparseable", "invalid", "noKey", "badKeyFormat", "valid"}

\* mutant: the tts loop goes on after a 404 only
IsRetryable_TtsNotFoundOnly(h, status) ==
    CASE h = "describe" -> status \in {503, 429, 404, 400}
      [] h = "tts" -> status = 404
      [] OTHER -> status \in {503, 404, 400}

\* the loop's test for "try the next model"
\* mutant: a 401 is retried like a 503
IsRetryable_Auth(h, status) ==
    IF h = "tts" THEN TRUE
    ELSE status \in {503, 404, 400, 401} \/ (h = "describe" /\ status = 429)

IsRetryable(h, status) ==
    CASE h = "describe" -> status \in {503, 429, 404, 400}
      [] h = "tts" -> status # 401
      [] OTHER -> status \in {503, 404, 400}

\* the response to a request that does not reach the resolver
EarlyResponse(h, req) ==
    CASE req = "unparseable" ->
             IF h \in {"voice-coach", "tts", "image"}
             THEN Resp(400, "Invalid JSON in request body", <<>>, NoError, NoResult)
             ELSE Resp(500, "request parse error", <<>>, NoError, NoResult)
      [] req = "invalid" -> Resp(400, "validation", <<>>, NoError, NoResult)
      [] req = "noKey" -> Resp(500, "key not configured", <<>>, NoError, NoResult)
      [] OTHER -> Resp(400, "Invalid API key format", <<>>, NoError, NoResult)

\* the catch block of generate, for an error thrown by an attempt
GenerateCatch(err) ==
    Resp(IF err.status # 0 THEN err.status ELSE 500,
         "Failed to generate fitness plan", <<>>, err, NoResult)

\* the catch block of a handler for the TypeError getModelsToTry raises
ResolverThrewResponse(h) ==
    Resp(500, "resolver threw", <<>>, NoError, NoResult)

\* the "if all models failed" branches: no result after the loop
ExhaustedResponse(h, err, names) ==
    CASE h = "generate" ->
             IF err.status = 503
             THEN Resp(500, "All models are currently overloaded", names, NoError, NoResult)
             ELSE IF err.status = 404
             THEN Resp(500, "No available models found", names, NoError, NoResult)
             ELSE IF err.status = 401
             THEN Resp(500, "Invalid API key", <<>>, NoError, NoResult)
             ELSE IF err.status = 429
             THEN Resp(500, "Rate limit exceeded", <<>>, NoError, NoResult)
             ELSE Resp(500, "API Error", <<>>, err, NoResult)
      [] h = "describe" ->
             IF err.status = 429
             THEN Resp(429, "Rate limit exceeded", <<>>, NoError, NoResult)
             ELSE IF err.status = 503
             THEN Resp(503, "All models are currently overloaded", names, NoError, NoResult)
             ELSE IF err.status = 404
             THEN Resp(404, "No available models found", names, NoError, NoResult)
             ELSE Resp(500, "upstream message", <<>>, err, NoResult)
      [] h = "analyze" ->
             IF err.status = 503
             THEN Resp(503, "All models are currently overloaded", names, NoError, NoResult)
             ELSE IF err.status = 404
             THEN Resp(404, "No available vision models found", names, NoError, NoResult)
             ELSE IF err = NoError
             THEN Resp(500, "Failed to generate analysis", <<>>, NoError, NoResult)
             ELSE IF err.status = 401 \/ err.msg = "API key"
             THEN Resp(401, "Authentication failed", <<>>, NoError, NoResult)
             ELSE IF err.msg = "not found"
             THEN Resp(404, "Model not found", names, NoError, NoResult)
             ELSE IF err.status = 429
             THEN Resp(429, "Rate limit exceeded", <<>>, NoError, NoResult)
             ELSE IF err.status = 400 \/ err.msg = "safety"
             THEN Resp(400, "Image content violates safety policies", <<>>, NoError, NoResult)
             ELSE Resp(500, "upstream message", <<>>, err, NoResult)
      [] h = "voice-coach" ->
             IF err.status = 503
             THEN Resp(503, "All models are currently overloaded", names, NoError, NoResult)
             ELSE IF err.status = 404
             THEN Resp(404, "No available models found", names, NoError, NoResult)
             ELSE IF err.status = 401
             THEN Resp(401, "Invalid API key", <<>>, NoError, NoResult)
             ELSE Resp(500, "upstream message", <<>>, err, NoResult)
      [] OTHER ->
             \* tts: 401 answered in place, anything else thrown to the
             \* catch block, which maps 429, 403 and 400 to themselves and
             \* the rest to 500 (its test of error.code is not modelled)
             IF err.status = 401
             THEN Resp(401, "Authentication failed", <<>>, NoError, NoResult)
             ELSE IF err.status \in {429, 403, 400}
             THEN Resp(err.status, "tts error", <<>>, NoError, NoResult)
             ELSE Resp(500, "Failed to generate speech", <<>>, err, NoResult)

\* generate's parsing of the model's text: a first JSON.parse of the
\* fenced block or the whole text; if that throws, one more JSON.parse of
\* the text between the first "{" and the last "}"; then the test for
\* workoutPlan and dietPlan
ParseGenerated(payload) ==
    [parsed |-> payload \in {"json", "fencedJson", "wrongShape"},
     extractions |-> IF payload \in {"proseOnly", "brokenBraces"} THEN 1 ELSE 0,
     shaped |-> payload \in {"json", "fencedJson"}]

\* what the handler does with the text of a successful attempt
SuccessResponse(h, payload) ==
    CASE h = "generate" ->
             IF ~ParseGenerated(payload).parsed
             THEN Resp(500, "Failed to parse JSON from AI response. Please try again", <<>>, NoError, NoResult)
             ELSE IF ~ParseGenerated(payload).shaped
             THEN Resp(500, "Invalid response structure from AI", <<>>, NoError, NoResult)
             ELSE Resp(200, "plan", <<>>, NoError, payload)
      [] h = "describe" -> Resp(200, "description", <<>>, NoError, payload)
      [] h = "analyze" ->
             IF payload = "proseOnly"
             THEN Resp(500, "Invalid response format from AI", <<>>, NoError, NoResult)
             ELSE IF payload = "brokenBraces"
             THEN Resp(500, "Failed to parse AI response", <<>>, NoError, NoResult)
             ELSE IF payload = "wrongShape"
             THEN Resp(500, "Incomplete analysis data received", <<>>, NoError, NoResult)
             ELSE Resp(200, "analysis", <<>>, NoError, payload)
      [] h = "voice-coach" ->
             IF payload = "brokenBraces"
             THEN Resp(400, "Invalid JSON in request body", <<>>, NoError, NoResult)
             ELSE IF payload = "wrongShape"
             THEN Resp(500, "Failed to generate speech", <<>>, NoError, NoResult)
             ELSE Resp(200, "speech", <<>>, NoError, payload)
      [] OTHER -> Resp(200, "audio", <<>>, NoError, payload)

\* ---- the handler as a state machine: one request at a time
HandlerInit ==
    /\ pc = "idle"
    /\ handler = "none"
    /\ request = "none"
    /\ modelNames = <<>>
    /\ idx = 0
    /\ attempts = <<>>
    /\ lastError = NoError
    /\ result = NoResult
    /\ response = NoResponse
    /\ inflight = {}
    /\ rpc = "off"
    /\ fetchOutcome = FetchNetworkError
    /\ resolved = NotResolved
    /\ CacheIdle
    /\ HookIdle
    /\ ImageIdle

\* the request is rejected before any model is looked up
RejectRequest(h, req) ==
    /\ pc = "idle"
    /\ req # "valid"
    /\ req = "badKeyFormat" => h = "tts"
    /\ req = "noKey" => h # "image"
    /\ handler' = h
    /\ request' = req
    /\ response' = EarlyResponse(h, req)
    /\ pc' = "done"
    /\ UNCHANGED <<modelNames, idx, attempts, lastError, result, inflight,
                   resolverVars, cacheVars, hookVars, imageVars>>

\* a valid request of a Gemini handler: the resolver runs
StartGemini(h, outcome) ==
    /\ pc = "idle"
    /\ h \in GeminiHandlers
    /\ handler' = h
    /\ request' = "valid"
    /\ fetchOutcome' = outcome
    /\ resolved' = getModelsToTry(outcome)
    /\ rpc' = "done"
    /\ IF resolved'.threw
       THEN /\ response' = ResolverThrewResponse(h)
            /\ pc' = "done"
            /\ modelNames' = <<>>
            /\ idx' = 0
       ELSE /\ modelNames' = resolved'.list
            /\ idx' = 1
            /\ pc' = IF Len(resolved'.list) = 0 THEN "post" ELSE "loop"
            /\ UNCHANGED response
    /\ UNCHANGED <<attempts, lastError, result, inflight, cacheVars, hookVars, imageVars>>

\* a valid tts request: the candidate list is fixed
StartTts ==
    /\ pc = "idle"
    /\ handler' = "tts"
    /\ request' = "valid"
    /\ modelNames' = TtsModels
    /\ idx' = 1
    /\ pc' = "loop"
    /\ UNCHANGED <<attempts, lastError, result, response, inflight,
                   resolverVars, cacheVars, hookVars, imageVars>>

\* mutant: the call for the next candidate is started along with this one
Dispatch_FanOut ==
    /\ pc = "loop"
    /\ idx <= Len(modelNames)
    /\ inflight' = inflight \cup ({idx, idx + 1} \cap (1..Len(modelNames)))
    /\ pc' = "inflight"
    /\ UNCHANGED <<handler, request, modelNames, idx, attempts, lastError, result,
                   response, resolverVars, cacheVars, hookVars, imageVars>>

\* the loop calls the provider with the candidate at idx and awaits it
Dispatch ==
    /\ pc = "loop"
    /\ idx <= Len(modelNames)
    /\ inflight' = inflight \cup {idx}
    /\ pc' = "inflight"
    /\ UNCHANGED <<handler, request, modelNames, idx, attempts, lastError, result,
                   response, resolverVars, cacheVars, hookVars, imageVars>>

\* mutant: the loop does not break on success
AttemptSucceeds_NoBreak(payload) ==
    /\ pc = "inflight"
    /\ idx \in inflight
    /\ inflight' = inflight \ {idx}
    /\ attempts' = Append(attempts, [pos |-> idx, model |-> modelNames[idx], status |-> 200, payload |-> payload])
    /\ result' = payload
    /\ idx' = idx + 1
    /\ pc' = IF idx + 1 <= Len(modelNames) THEN "loop" ELSE "post"
    /\ UNCHANGED <<handler, request, modelNames, lastError, response,
                   resolverVars, cacheVars, hookVars, imageVars>>

\* the awaited call returns: result is set and the loop breaks
AttemptSucceeds(payload) ==
    /\ pc = "inflight"
    /\ idx \in inflight
    /\ inflight' = inflight \ {idx}
    /\ attempts' = Append(attempts, [pos |-> idx, model |-> modelNames[idx], status |-> 200, payload |-> payload])
    /\ result' = payload
    /\ pc' = "post"
    /\ UNCHANGED <<handler, request, modelNames, idx, lastError, response,
                   resolverVars, cacheVars, hookVars, imageVars>>

\* the awaited call throws: the catch block of the loop body
AttemptFails(status, msg) ==
    /\ pc = "inflight"
    /\ idx \in inflight
    /\ inflight' = inflight \ {idx}
    /\ attempts' = Append(attempts, [pos |-> idx, model |-> modelNames[idx], status |-> status, payload |-> NoResult])
    /\ lastError' = UpstreamError(status, msg, modelNames[idx])
    /\ IF IsRetryable(handler, status)
       THEN \* continue
            /\ idx' = idx + 1
            /\ pc' = IF idx + 1 <= Len(modelNames) THEN "loop" ELSE "post"
            /\ UNCHANGED response
       ELSE IF handler = "generate"
       THEN \* throw error: straight to the handler's catch block
            /\ response' = GenerateCatch(lastError')
            /\ pc' = "done"
            /\ UNCHANGED idx
       ELSE \* break
            /\ pc' = "post"
            /\ UNCHANGED <<idx, response>>
    /\ UNCHANGED <<handler, request, modelNames, result, resolverVars, cacheVars,
                   hookVars, imageVars>>

\* after the loop: the response is built from result or lastError
Finish ==
    /\ pc = "post"
    /\ response' = IF result = NoResult
                   THEN ExhaustedResponse(handler, lastError, modelNames)
                   ELSE SuccessResponse(handler, result)
    /\ pc' = "done"
    /\ UNCHANGED <<handler, request, modelNames, idx, attempts, lastError, result,
                   inflight, resolverVars, cacheVars, hookVars, imageVars>>

Next ==
    \/ \E h \in RequestHandlers, req \in RequestKinds : RejectRequest(h, req)
    \/ \E h \in GeminiHandlers, outcome \in HandlerFetchOutcomes : StartGemini(h, outcome)
    \/ StartTts
    \/ Dispatch
    \/ \E payload \in Payloads : AttemptSucceeds(payload)
    \/ \E status \in ErrorStatuses, msg \in ErrorMessages : AttemptFails(status, msg)
    \/ Finish

Spec == HandlerInit /\ [][Next]_vars

(***************************************************************************)
(* Local image cache: clearCachedImage, getCachedImage, setCachedImage.    *)
(***************************************************************************)
CACHE_VERSION == "v2"
CACHE_EXPIRY_DAYS == 7
CACHE_EXPIRY_MS == CACHE_EXPIRY_DAYS * 24 * 60 * 60 * 1000
EightDaysMs == (CACHE_EXPIRY_DAYS + 1) * 24 * 60 * 60 * 1000

\* exercise names, each standing for the storage key CACHE_PREFIX + name
Names == {"push-ups", "squats"}
Urls == {"url-a", "url-b"}

\* how far the clock moves in one step
ClockSteps == {1, CACHE_EXPIRY_MS, EightDaysMs}

\* localStorage.getItem's null, and the hook's null
NoItem == [kind |-> "null", url |-> "", timestamp |-> 0, version |-> ""]
Null == "null"

\* a stored string that is not JSON
CorruptItem == [kind |-> "corrupt", url |-> "", timestamp |-> 0, version |-> ""]

\* mutant: the version field is lost in serialization
Stringify_DropVersion(data) ==
    [kind |-> "json", url |-> data.url, timestamp |-> data.timestamp,
     version |-> "missing"]

\* JSON.stringify of a CachedImage; version "missing" is an object
\* without the optional version field
Stringify(data) ==
    [kind |-> "json", url |-> data.url, timestamp |-> data.timestamp,
     version |-> data.version]

\* JSON.parse of a stored string
Parse(item) ==
    IF item.kind = "json"
    THEN [threw |-> FALSE,
          data |-> [url |-> item.url, timestamp |-> item.timestamp,
                    version |-> item.version]]
    ELSE [threw |-> TRUE, data |-> [url |-> "", timestamp |-> 0, version |-> ""]]

\* mutant: removing one key clears the whole storage
RemoveItem_All(store, name) == [k \in DOMAIN store |-> NoItem]

RemoveItem(store, name) == [store EXCEPT ![name] = NoItem]
SetItem(store, name, item) == [store EXCEPT ![name] = item]

\* mutant: the version of the entry is not looked at
GetCached_NoVersionCheck(store, name, t) ==
    LET cached == store[name]
        parsed == Parse(cached)
    IN IF cached = NoItem THEN [ret |-> Null, store |-> store]
       ELSE IF parsed.threw THEN [ret |-> Null, store |-> store]
       ELSE IF t - parsed.data.timestamp > CACHE_EXPIRY_MS
       THEN [ret |-> Null, store |-> RemoveItem(store, name)]
       ELSE [ret |-> parsed.data.url, store |-> store]

\* mutant: a stale entry is reported absent but left in storage
GetCached_NoEvict(store, name, t) ==
    LET cached == store[name]
        parsed == Parse(cached)
    IN IF cached = NoItem THEN [ret |-> Null, store |-> store]
       ELSE IF parsed.threw THEN [ret |-> Null, store |-> store]
       ELSE IF parsed.data.version # CACHE_VERSION
       THEN [ret |-> Null, store |-> store]
       ELSE IF t - parsed.data.timestamp > CACHE_EXPIRY_MS
       THEN [ret |-> Null, store |-> store]
       ELSE [ret |-> parsed.data.url, store |-> store]

\* getCachedImage(name) at time t: what it returns and the storage it
\* leaves (in a browser: window is defined; a stored empty string, which
\* the code treats like null, is not among the stored items)
GetCached(store, name, t) ==
    LET cached == store[name]
        parsed == Parse(cached)
    IN IF cached = NoItem THEN [ret |-> Null, store |-> store]
       ELSE IF parsed.threw THEN [ret |-> Null, store |-> store]
       ELSE IF parsed.data.version # CACHE_VERSION
       THEN [ret |-> Null, store |-> RemoveItem(store, name)]
       ELSE IF t - parsed.data.timestamp > CACHE_EXPIRY_MS
       THEN [ret |-> Null, store |-> RemoveItem(store, name)]
       ELSE [ret |-> parsed.data.url, store |-> store]

\* mutant: an entry that is already there is kept (first write wins)
SetCached_KeepFirst(store, name, url, t) ==
    IF store[name] = NoItem
    THEN SetItem(store, name,
                 Stringify([url |-> url, timestamp |-> t, version |-> CACHE_VERSION]))
    ELSE store

\* setCachedImage(name, url) at time t
SetCached(store, name, url, t) ==
    SetItem(store, name,
            Stringify([url |-> url, timestamp |-> t, version |-> CACHE_VERSION]))

\* what the storage layer does at a call: works, or throws (access to
\* localStorage denied; for a write also quota exceeded or a value
\* JSON.stringify rejects)
Faults == {"none", "storage"}

\* mutant: the catch block lets the error through
Caught_Rethrow(threw) == threw

\* try { ... } catch { log or return null }: does the error reach the caller
Caught(threw) == FALSE

\* what is kept of the item an operation found under its key
Before(item) == [kind |-> item.kind, url |-> item.url, version |-> item.version]

Op(op, name, url, before, fault) ==
    [op |-> op, name |-> name, url |-> url, before |-> before, fault |-> fault]
NoOp == Op("none", "", "", Before(NoItem), "none")

NoRead == [name |-> "", found |-> NoItem, at |-> 0, ret |-> Null,
           prev |-> NoOp, fault |-> "none"]

CacheInit ==
    /\ storage = [n \in Names |-> NoItem]
    /\ now = 0
    /\ ticks = 0
    /\ readLog = NoRead
    /\ lastOp = NoOp
    /\ raised = FALSE
    /\ ResolverIdle
    /\ HandlerIdle
    /\ HookIdle
    /\ ImageIdle

GetCachedImage(name, fault) ==
    /\ IF fault = "none"
       THEN /\ storage' = GetCached(storage, name, now).store
            /\ readLog' = [name |-> name, found |-> storage[name], at |-> now,
                           ret |-> GetCached(storage, name, now).ret,
                           prev |-> lastOp, fault |-> fault]
            /\ raised' = Caught(Parse(storage[name]).threw /\ storage[name] # NoItem)
       ELSE \* getItem throws: the catch block returns null
            /\ storage' = storage
            /\ readLog' = [name |-> name, found |-> NoItem, at |-> now,
                           ret |-> Null, prev |-> lastOp, fault |-> fault]
            /\ raised' = Caught(TRUE)
    /\ lastOp' = Op("get", name, "", Before(NoItem), fault)
    /\ UNCHANGED <<now, ticks, resolverVars, handlerVars, hookVars, imageVars>>

SetCachedImage(name, url, fault) ==
    /\ storage' = IF fault = "none" THEN SetCached(storage, name, url, now)
                  ELSE storage
    /\ raised' = Caught(fault # "none")
    /\ readLog' = NoRead
    /\ lastOp' = Op("set", name, url, Before(storage[name]), fault)
    /\ UNCHANGED <<now, ticks, resolverVars, handlerVars, hookVars, imageVars>>

ClearCachedImage(name, fault) ==
    /\ storage' = IF fault = "none" THEN RemoveItem(storage, name) ELSE storage
    /\ raised' = Caught(fault # "none")
    /\ readLog' = NoRead
    /\ lastOp' = Op("clear", name, "", Before(storage[name]), fault)
    /\ UNCHANGED <<now, ticks, resolverVars, handlerVars, hookVars, imageVars>>

\* an entry left by a build with another CACHE_VERSION, or by one that
\* wrote no version field
LegacyWrite(name, version) ==
    /\ version \in {"v1", "missing"}
    /\ storage' = SetItem(storage, name,
                          Stringify([url |-> "url-a", timestamp |-> now, version |-> version]))
    /\ readLog' = NoRead
    /\ lastOp' = Op("legacy", name, "", Before(NoItem), "none")
    /\ UNCHANGED <<now, ticks, raised, resolverVars, handlerVars, hookVars, imageVars>>

\* the stored string is not parseable JSON
CorruptWrite(name) ==
    /\ storage' = SetItem(storage, name, CorruptItem)
    /\ readLog' = NoRead
    /\ lastOp' = Op("corrupt", name, "", Before(NoItem), "none")
    /\ UNCHANGED <<now, ticks, raised, resolverVars, handlerVars, hookVars, imageVars>>

\* time passes
Tick(step) ==
    /\ ticks < MaxTicks
    /\ now' = now + step
    /\ ticks' = ticks + 1
    /\ readLog' = NoRead
    /\ lastOp' = NoOp
    /\ UNCHANGED <<storage, raised, resolverVars, handlerVars, hookVars, imageVars>>

CacheNext ==
    \/ \E name \in Names, fault \in Faults : GetCachedImage(name, fault)
    \/ \E name \in Names, url \in Urls, fault \in Faults : SetCachedImage(name, url, fault)
    \/ \E name \in Names, fault \in Faults : ClearCachedImage(name, fault)
    \/ \E name \in Names, version \in {"v1", "missing"} : LegacyWrite(name, version)
    \/ \E name \in Names : CorruptWrite(name)
    \/ \E step \in ClockSteps : Tick(step)

SpecCache == CacheInit /\ [][CacheNext]_vars

(***************************************************************************)
(* The useExerciseImage hook: fetchImage, loadFromCache, reset, and the    *)
(* completion of the requests fetchImage sends to /api/image.              *)
(***************************************************************************)
\* the names callers pass, as sequences of tokens: a blank or the name
RawNames ==
    { <<"push-ups">>, <<"squats">>, <<" ", "squats", " ">>, <<>>, <<" ", " ">> }

\* name.trim()
RECURSIVE TrimStart(_)
TrimStart(raw) ==
    IF raw # <<>> /\ Head(raw) = " " THEN TrimStart(Tail(raw)) ELSE raw

RECURSIVE TrimEnd(_)
TrimEnd(raw) ==
    IF raw # <<>> /\ raw[Len(raw)] = " "
    THEN TrimEnd(SubSeq(raw, 1, Len(raw) - 1))
    ELSE raw

Trim(raw) == TrimEnd(TrimStart(raw))

\* the string a trimmed, non-empty token sequence spells
Spell(tokens) == tokens[1]

\* the URL /api/image resolves for a name
ImageOf(name) == IF name = "push-ups" THEN "url-a" ELSE "url-b"

\* how a request to /api/image ends: ok with a URL, ok with neither url
\* nor imageUrl, a non-ok status, fetch rejecting, response.json() throwing
Outcomes == {"ok", "okNoUrl", "notOk", "network", "badJson"}

\* err.message || "Failed to generate image"
ErrorOf(outcome) ==
    CASE outcome = "okNoUrl" -> "No image URL returned"
      [] outcome = "notOk" -> "Failed to generate image"
      [] outcome = "network" -> "Failed to fetch"
      [] OTHER -> "Unexpected token"

HookState(url, loading, error, currentName) ==
    [url |-> url, loading |-> loading, error |-> error,
     currentName |-> currentName]

Call(op, name, hit, sent, outcome) ==
    [op |-> op, name |-> name, hit |-> hit, sent |-> sent, outcome |-> outcome]
NoCall == Call("none", "", Null, FALSE, "none")

\* what localStorage holds under a key when the component mounts: nothing,
\* an entry this build wrote, an entry of an older build, or garbage
StoredAtMount ==
    { NoItem,
      Stringify([url |-> "url-a", timestamp |-> 0, version |-> CACHE_VERSION]),
      Stringify([url |-> "url-a", timestamp |-> 0, version |-> "v1"]),
      CorruptItem }

HookInit ==
    /\ hook = HookState(Null, FALSE, Null, Null)
    /\ requests = {}
    /\ issued = <<>>
    /\ calls = 0
    /\ lastCall = NoCall
    /\ storage \in [Names -> StoredAtMount]
    /\ now = 0
    /\ ticks = 0
    /\ readLog = NoRead
    /\ lastOp = NoOp
    /\ raised = FALSE
    /\ ResolverIdle
    /\ HandlerIdle
    /\ ImageIdle

\* mutant: the request is sent without looking into the cache
FetchImage_NoCacheCheck(raw) ==
    /\ calls < MaxCalls
    /\ calls' = calls + 1
    /\ IF Trim(raw) = <<>>
       THEN /\ hook' = [hook EXCEPT !.error = "Exercise name is required"]
            /\ lastCall' = Call("fetchImage", "", Null, FALSE, "none")
            /\ UNCHANGED <<storage, requests, issued>>
       ELSE LET exerciseName == Spell(Trim(raw))
                cached == GetCached(storage, exerciseName, now)
            IN /\ storage' = cached.store
               /\ hook' = HookState(Null, TRUE, Null, exerciseName)
               /\ issued' = Append(issued, [name |-> exerciseName,
                                            overlapping |-> requests # {},
                                            outcome |-> "pending"])
               /\ requests' = requests \cup {Len(issued) + 1}
               /\ lastCall' = Call("fetchImage", exerciseName, cached.ret, TRUE, "none")
    /\ UNCHANGED <<now, ticks, readLog, lastOp, raised, resolverVars, handlerVars, imageVars>>

\* fetchImage(name), up to the await of fetch
FetchImage(raw) ==
    /\ calls < MaxCalls
    /\ calls' = calls + 1
    /\ IF Trim(raw) = <<>>
       THEN /\ hook' = [hook EXCEPT !.error = "Exercise name is required"]
            /\ lastCall' = Call("fetchImage", "", Null, FALSE, "none")
            /\ UNCHANGED <<storage, requests, issued>>
       ELSE LET exerciseName == Spell(Trim(raw))
                cached == GetCached(storage, exerciseName, now)
            IN /\ storage' = cached.store
               /\ IF cached.ret # Null
                  THEN /\ hook' = HookState(cached.ret, FALSE, Null, exerciseName)
                       /\ UNCHANGED <<requests, issued>>
                  ELSE /\ hook' = HookState(Null, TRUE, Null, exerciseName)
                       /\ issued' = Append(issued, [name |-> exerciseName,
                                                    overlapping |-> requests # {},
                                                    outcome |-> "pending"])
                       /\ requests' = requests \cup {Len(issued) + 1}
               /\ lastCall' = Call("fetchImage", exerciseName, cached.ret,
                                   cached.ret = Null, "none")
    /\ UNCHANGED <<now, ticks, readLog, lastOp, raised, resolverVars, handlerVars, imageVars>>

\* mutant: the URL is cached whatever the request brought
Complete_AlwaysCache(id, outcome) ==
    /\ id \in requests
    /\ requests' = requests \ {id}
    /\ issued' = [issued EXCEPT ![id].outcome = outcome]
    /\ storage' = SetCached(storage, issued[id].name, ImageOf(issued[id].name), now)
    /\ IF outcome = "ok"
       THEN hook' = [hook EXCEPT !.url = ImageOf(issued[id].name), !.loading = FALSE]
       ELSE hook' = [hook EXCEPT !.error = ErrorOf(outcome), !.url = Null,
                                 !.loading = FALSE]
    /\ lastCall' = Call("complete", issued[id].name, Null, FALSE, outcome)
    /\ UNCHANGED <<calls, now, ticks, readLog, lastOp, raised,
                   resolverVars, handlerVars, imageVars>>

\* the rest of fetchImage, from the moment its request completes: the
\* try, catch and finally blocks
Complete(id, outcome) ==
    /\ id \in requests
    /\ requests' = requests \ {id}
    /\ issued' = [issued EXCEPT ![id].outcome = outcome]
    /\ IF outcome = "ok"
       THEN /\ hook' = [hook EXCEPT !.url = ImageOf(issued[id].name),
                                    !.loading = FALSE]
            /\ storage' = SetCached(storage, issued[id].name,
                                    ImageOf(issued[id].name), now)
       ELSE /\ hook' = [hook EXCEPT !.error = ErrorOf(outcome), !.url = Null,
                                    !.loading = FALSE]
            /\ UNCHANGED storage
    /\ lastCall' = Call("complete", issued[id].name, Null, FALSE, outcome)
    /\ UNCHANGED <<calls, now, ticks, readLog, lastOp, raised,
                   resolverVars, handlerVars, imageVars>>

\* loadFromCache(name)
LoadFromCache(raw) ==
    /\ calls < MaxCalls
    /\ calls' = calls + 1
    /\ IF Trim(raw) = <<>>
       THEN /\ lastCall' = Call("loadFromCache", "", Null, FALSE, "none")
            /\ UNCHANGED <<hook, storage>>
       ELSE LET exerciseName == Spell(Trim(raw))
                cached == GetCached(storage, exerciseName, now)
            IN /\ storage' = cached.store
               /\ hook' = IF cached.ret # Null
                          THEN [hook EXCEPT !.url = cached.ret, !.error = Null]
                          ELSE hook
               /\ lastCall' = Call("loadFromCache", exerciseName, cached.ret,
                                   FALSE, "none")
    /\ UNCHANGED <<requests, issued, now, ticks, readLog, lastOp, raised,
                   resolverVars, handlerVars, imageVars>>

\* reset()
Reset ==
    /\ calls < MaxCalls
    /\ calls' = calls + 1
    /\ hook' = [hook EXCEPT !.url = Null, !.error = Null, !.loading = FALSE]
    /\ lastCall' = Call("reset", "", Null, FALSE, "none")
    /\ UNCHANGED <<requests, issued, cacheVars, resolverVars, handlerVars, imageVars>>

\* time passes: long enough for an entry to expire
Expire ==
    /\ ticks < MaxTicks
    /\ Tick(EightDaysMs)

HookNext ==
    \/ \E raw \in RawNames : FetchImage(raw)
    \/ \E id \in 1..MaxCalls, outcome \in Outcomes : Complete(id, outcome)
    \/ \E raw \in RawNames : LoadFromCache(raw)
    \/ Reset
    \/ Expire

SpecHook == HookInit /\ [][HookNext]_vars

(***************************************************************************)
(* The /api/image route: OpenAI, then Unsplash search or the curated map,  *)
(* then a placeholder.                                                     *)
(***************************************************************************)
N_push_ups == <<"p","u","s","h","-","u","p","s">>
N_Plank == <<"P","l","a","n","k">>
N_chicken_salad == <<"c","h","i","c","k","e","n"," ","s","a","l","a","d">>
N_oatmeal == <<"o","a","t","m","e","a","l">>
N_grilled_tofu_padded == <<" ","g","r","i","l","l","e","d"," ","t","o","f","u"," ">>
N_blank == <<" "," ">>

\* the name field of the request body; "undefined" is a body without one
ImageNames ==
    { N_push_ups, N_Plank, N_chicken_salad, N_oatmeal, N_grilled_tofu_padded,
      N_blank, S_empty, Undefined }

\* String.prototype.toLowerCase, on the letters the names are made of
LowerChar(c) == IF c = "P" THEN "p" ELSE c
ToLowerCase(str) == [k \in 1..Len(str) |-> LowerChar(str[k])]

\* those of the route's foodKeywords that occur in the names above
FoodKeywords ==
    { <<"s","a","l","a","d">>, <<"c","h","i","c","k","e","n">>,
      <<"o","a","t","m","e","a","l">>, <<"o","a","t","s">>, <<"t","o","f","u">>,
      <<"b","u","r","g","e","r">>, <<"s","o","u","p">> }

\* the cooking methods of hasCookingMethod: /^(grilled|baked|...)\s/
CookingMethods ==
    { <<"g","r","i","l","l","e","d">>, <<"b","a","k","e","d">>,
      <<"r","o","a","s","t","e","d">> }

\* the words of hasFoodContainer
FoodContainers ==
    { <<"s","a","l","a","d">>, <<"b","o","w","l">>, <<"p","l","a","t","e">>,
      <<"w","r","a","p">>, <<"s","o","u","p">>, <<"s","t","e","w">> }

IsMeal(lowerName) ==
    \/ \E keyword \in FoodKeywords : Includes(lowerName, keyword)
    \/ \E method \in CookingMethods : StartsWith(lowerName, method \o <<" ">>)
    \/ \E word \in FoodContainers : Includes(lowerName, word)

\* foodImageMap and exerciseImageMap: keys in the order of the source,
\* each with the photo it maps to (the keys that matter for the names)
FoodImageMap ==
    << [key |-> <<"b","u","r","g","e","r">>, url |-> "photo-1568901346375"],
       [key |-> <<"s","a","l","a","d">>, url |-> "photo-1512621776951"],
       [key |-> <<"c","h","i","c","k","e","n">>, url |-> "photo-1604503468506"],
       [key |-> <<"g","r","i","l","l","e","d">>, url |-> "photo-1604503468506"] >>

ExerciseImageMap ==
    << [key |-> <<"w","a","l","k">>, url |-> "photo-1544367567"],
       [key |-> <<"p","u","s","h">>, url |-> "photo-1517836357463"],
       [key |-> <<"s","q","u","a","t">>, url |-> "photo-1517836357463"] >>

\* Object.keys(map).find(key => lowerName.includes(key)), then map[key]
DirectMatch(map, lowerName) ==
    IF \E k \in 1..Len(map) : Includes(lowerName, map[k].key)
    THEN map[CHOOSE k \in 1..Len(map) :
                 /\ Includes(lowerName, map[k].key)
                 /\ \A j \in 1..(k - 1) : ~Includes(lowerName, map[j].key)].url
    ELSE Null

\* the placeholder lists; the index is Math.abs(itemHash) % 4
PlaceholderIndexes == 0..3
FoodImages ==
    << "photo-1546069901", "photo-1490645935967", "photo-1504674900247",
       "photo-1512621776951" >>
FitnessImages ==
    << "photo-1571019613454", "photo-1517836357463", "photo-1534438327276",
       "photo-1544367567" >>

\* openai.images.generate: a URL, data without a URL, or an error
OpenAiOutcomes == {"url", "noUrl", "throws"}

\* the Unsplash search: results with a usable URL, results whose chosen
\* entry has none, no results, a non-ok status, fetch or json() throwing
UnsplashOutcomes == {"found", "noUrls", "noResults", "notOk", "throws"}

\* the name passes the route's validation
NameAccepted(name) ==
    /\ name # Undefined
    /\ name # S_empty
    /\ Len(Trim(name)) # 0

ImageRequest(name, openai, unsplashKey) ==
    [pc |-> "received", name |-> name, openai |-> openai,
     unsplashKey |-> unsplashKey, imageUrl |-> Null, provider |-> "unknown",
     tried |-> <<>>, status |-> 0, url |-> Null]

ImageInit ==
    /\ image \in { ImageRequest(name, openai, unsplashKey) :
                       name \in ImageNames, openai \in BOOLEAN,
                       unsplashKey \in BOOLEAN }
    /\ ResolverIdle
    /\ HandlerIdle
    /\ CacheIdle
    /\ HookIdle

ImageFrame == UNCHANGED <<resolverVars, handlerVars, cacheVars, hookVars>>

\* the name is validated
ValidateImage ==
    /\ image.pc = "received"
    /\ image' = IF NameAccepted(image.name)
                THEN [image EXCEPT !.pc = "openai"]
                ELSE [image EXCEPT !.pc = "done", !.status = 400]
    /\ ImageFrame

\* mutant: an error of the OpenAI call is not caught
OpenAi_Uncaught(outcome) ==
    /\ image.pc = "openai"
    /\ image' = IF ~image.openai
                THEN [image EXCEPT !.pc = "fallback"]
                ELSE IF outcome = "url"
                THEN [image EXCEPT !.pc = "fallback", !.imageUrl = "dall-e-url",
                                   !.provider = "openai",
                                   !.tried = Append(@, "openai")]
                ELSE [image EXCEPT !.pc = "done", !.status = 500,
                                   !.tried = Append(@, "openai")]
    /\ ImageFrame

\* option 1: DALL-E, if the OpenAI client is configured
OpenAi(outcome) ==
    /\ image.pc = "openai"
    /\ image' = IF ~image.openai
                THEN [image EXCEPT !.pc = "fallback"]
                ELSE IF outcome = "url"
                THEN [image EXCEPT !.pc = "fallback", !.imageUrl = "dall-e-url",
                                   !.provider = "openai",
                                   !.tried = Append(@, "openai")]
                ELSE [image EXCEPT !.pc = "fallback",
                                   !.tried = Append(@, "openai")]
    /\ ImageFrame

\* option 2 with UNSPLASH_ACCESS_KEY: the search API
UnsplashSearch(outcome) ==
    /\ image.pc = "fallback"
    /\ image.imageUrl = Null
    /\ image.unsplashKey
    /\ image' = IF outcome = "found"
                THEN [image EXCEPT !.pc = "final", !.imageUrl = "unsplash-regular",
                                   !.provider = "unsplash",
                                   !.tried = Append(@, "unsplash")]
                ELSE IF outcome = "noUrls"
                THEN [image EXCEPT !.pc = "final", !.provider = "unsplash",
                                   !.tried = Append(@, "unsplash")]
                ELSE [image EXCEPT !.pc = "final",
                                   !.tried = Append(@, "unsplash")]
    /\ ImageFrame

\* option 2 without the key: the curated maps
CuratedLookup ==
    /\ image.pc = "fallback"
    /\ image.imageUrl = Null
    /\ ~image.unsplashKey
    /\ LET lowerName == ToLowerCase(Trim(image.name))
           mapToCheck == IF IsMeal(lowerName) THEN FoodImageMap
                         ELSE ExerciseImageMap
           directMatch == DirectMatch(mapToCheck, lowerName)
       IN image' = IF directMatch # Null
                   THEN [image EXCEPT !.pc = "final", !.imageUrl = directMatch,
                                      !.provider = "unsplash-curated",
                                      !.tried = Append(@, "curated")]
                   ELSE [image EXCEPT !.pc = "final",
                                      !.tried = Append(@, "curated")]
    /\ ImageFrame

\* option 3, if there is still no URL, and the response
RespondImage(index) ==
    /\ \/ image.pc = "final"
       \/ image.pc = "fallback" /\ image.imageUrl # Null
    /\ LET lowerName == ToLowerCase(Trim(image.name))
           placeholder == IF IsMeal(lowerName) THEN FoodImages[index + 1]
                          ELSE FitnessImages[index + 1]
       IN image' = IF image.imageUrl = Null
                   THEN [image EXCEPT !.pc = "done", !.status = 200,
                                      !.imageUrl = placeholder,
                                      !.url = placeholder,
                                      !.provider = "placeholder",
                                      !.tried = Append(@, "placeholder")]
                   ELSE [image EXCEPT !.pc = "done", !.status = 200,
                                      !.url = image.imageUrl]
    /\ ImageFrame

ImageNext ==
    \/ ValidateImage
    \/ \E outcome \in OpenAiOutcomes : OpenAi(outcome)
    \/ \E outcome \in UnsplashOutcomes : UnsplashSearch(outcome)
    \/ CuratedLookup
    \/ \E index \in PlaceholderIndexes : RespondImage(index)

SpecImage == ImageInit /\ [][ImageNext]_vars

(***************************************************************************)
(* Claims about the cache (checked under SpecCache).                       *)
(***************************************************************************)
ReadHappened == readLog # NoRead

ReadAge == readLog.at - readLog.found.timestamp

\* C9 as claimed: getCachedImage returns a cached URL only if an entry
\* exists, its version is the current one and its age is strictly under
\* the 7-day TTL.
C9_ReadOnlyIfUnderTtl ==
    (ReadHappened /\ readLog.ret # Null) =>
        /\ readLog.found.kind = "json"
        /\ readLog.found.version = CACHE_VERSION
        /\ ReadAge < CACHE_EXPIRY_MS
        /\ readLog.ret = readLog.found.url

\* C9 as amended: getCachedImage returns a cached URL only if an entry
\* exists, its version is the current one and its age is at most the
\* 7-day TTL (an entry aged exactly the TTL is still returned).
C9_ReadOnlyIfWithinTtl ==
    (ReadHappened /\ readLog.ret # Null) =>
        /\ readLog.found.kind = "json"
        /\ readLog.found.version = CACHE_VERSION
        /\ ReadAge <= CACHE_EXPIRY_MS
        /\ readLog.ret = readLog.found.url

C9_Witness ==
    /\ ReadHappened
    /\ readLog.ret = "url-b"
    /\ readLog.found.version = CACHE_VERSION
    /\ ReadAge = CACHE_EXPIRY_MS
    /\ \E other \in Names : storage[other].version = "v1"

\* C10: a read that finds an entry expired (age over the TTL) or of
\* another version returns none, and the entry is gone from storage.
C10_StaleReadEvicts ==
    (/\ ReadHappened
     /\ readLog.found.kind = "json"
     /\ \/ readLog.found.version # CACHE_VERSION
        \/ ReadAge > CACHE_EXPIRY_MS)
    => /\ readLog.ret = Null
       /\ storage[readLog.name] = NoItem

C10_Witness ==
    /\ ReadHappened
    /\ readLog.name = "push-ups"
    /\ readLog.found.kind = "json"
    /\ readLog.found.version = CACHE_VERSION
    /\ ReadAge = EightDaysMs
    /\ readLog.ret = Null
    /\ storage["push-ups"] = NoItem

(***************************************************************************)
(* Claims about the fallback loops (checked under Spec).                   *)
(***************************************************************************)
\* the statuses the claims call retryable
ClaimRetryable == {503, 404, 400}

\* the statuses the claims call fatal for a handler
ClaimFatal(h, status) ==
    \/ status = 401
    \/ h \in GeminiHandlers /\ status \in {403, 500, 0}

\* the text of a response's message holds the identifier
MessageContains(resp, id) ==
    \/ id \in Range(resp.tried)
    \/ resp.err.msg = "not found" /\ resp.err.model = id

\* C1: when attempts 1..N-1 fail with 503, 404 or 400 and attempt N
\* succeeds with payload X, the loop has made exactly N attempts, at
\* positions 1..N, X is the result the handler goes on with, and no
\* candidate after position N is attempted.
C1_FirstSuccessWins ==
    \A n \in 1..Len(attempts) :
        (/\ attempts[n].status = 200
         /\ \A k \in 1..(n - 1) : attempts[k].status \in ClaimRetryable)
        => /\ Len(attempts) = n
           /\ \A k \in 1..n : attempts[k].pos = k
           /\ result = attempts[n].payload
           /\ pc \in {"post", "done"}
           /\ pc = "done" => response = SuccessResponse(handler, attempts[n].payload)

C1_Witness ==
    /\ handler \in {"generate", "describe"}
    /\ pc = "done"
    /\ Len(attempts) = 3
    /\ Len(modelNames) > 3
    /\ attempts[1].status = 503
    /\ attempts[2].status = 400
    /\ attempts[3].status = 200
    /\ response.status = 200

\* C2: in every fallback loop, once an attempt has failed with a fatal
\* error (401; for the Gemini loops also 403, 500 or no status), no later
\* candidate is attempted.
C2_FatalStops ==
    \A n \in 1..Len(attempts) :
        ClaimFatal(handler, attempts[n].status)
            => /\ Len(attempts) = n
               /\ pc \in {"post", "done"}

C2_Witness ==
    /\ pc = "done"
    /\ Len(attempts) = 2
    /\ Len(modelNames) > 2
    /\ ClaimFatal(handler, attempts[2].status)
    /\ handler \in {"tts", "analyze"}

\* C3: in each Gemini handler, when the first attempt fails with 401,
\* exactly one attempt is made and the response has HTTP status 401.
C3_UnauthorizedSurfaced ==
    (/\ handler \in GeminiHandlers
     /\ pc = "done"
     /\ Len(attempts) >= 1
     /\ attempts[1].status = 401)
    => (Len(attempts) = 1 /\ response.status = 401)

\* C4: when all N candidates were attempted and each failed with a
\* retryable status (any mix, also with 400 last), the message of the
\* error response contains all N candidate identifiers.
C4_ExhaustionListsCandidates ==
    (/\ handler \in GeminiHandlers
     /\ pc = "done"
     /\ Len(modelNames) > 0
     /\ Len(attempts) = Len(modelNames)
     /\ \A k \in 1..Len(attempts) : attempts[k].status \in ClaimRetryable)
    => \A k \in 1..Len(modelNames) : MessageContains(response, modelNames[k])

(***************************************************************************)
(* Claims about the resolver (checked under SpecResolver).                 *)
(***************************************************************************)
\* the live list the resolver works on
LiveList == getAvailableModels(fetchOutcome)

\* tagged preview/experimental, as the claims word it
TaggedPreview(m) ==
    Includes(m, S_preview) \/ Includes(m, S_experimental) \/ Includes(m, S_exp)

\* C5: for every live model list (empty, or any mix of identifiers, also
\* ones containing "beta" or Gemini names without a version marker), the
\* list getModelsToTry returns is non-empty.
C5_ResolverNonEmpty ==
    (rpc = "done" /\ ~resolved.threw) => Len(resolved.list) > 0

\* C6: in the list getModelsToTry returns, no identifier tagged
\* preview/experimental/exp stands before a stable identifier.
C6_PreviewNeverBeforeStable ==
    rpc = "done" =>
        \A i, j \in 1..Len(resolved.list) :
            (i < j /\ TaggedPreview(resolved.list[i]))
                => TaggedPreview(resolved.list[j])

C6_Witness ==
    /\ rpc = "done"
    /\ \E i, j \in 1..Len(resolved.list) :
           /\ i < j
           /\ ~TaggedPreview(resolved.list[i])
           /\ TaggedPreview(resolved.list[j])
    /\ \E k \in 1..Len(LiveList) :
           /\ k < Len(LiveList)
           /\ TaggedPreview(LiveList[k])
           /\ ~TaggedPreview(LiveList[k + 1])

\* the listing call failed: network error, non-2xx status, or a malformed
\* body (not JSON, no models field, a descriptor without a name)
ListingFailed ==
    \/ fetchOutcome.kind \in {"network", "notOk", "badJson", "noModels"}
    \/ /\ fetchOutcome.kind = "body"
       /\ \E i \in 1..Len(fetchOutcome.models) :
              /\ fetchOutcome.models[i].name = Undefined
              /\ SupportsGenerate(fetchOutcome.models[i])

\* C7: when the model-listing call fails in any way, getModelsToTry does
\* not throw and returns exactly the static list.
C7_ResolverNeverThrows ==
    (rpc = "done" /\ ListingFailed) =>
        (~resolved.threw /\ resolved.list = StaticModels)

\* C8: when the live list is non-empty every identifier of the result is
\* an identifier of the live list; a static identifier that the live
\* list does not hold appears only when the live list was empty.
C8_OutputDrawnFromInput ==
    (rpc = "done" /\ ~resolved.threw) =>
        /\ Len(LiveList) > 0 => Range(resolved.list) \subseteq Range(LiveList)
        /\ (\E s \in Range(StaticModels) :
                s \in Range(resolved.list) /\ s \notin Range(LiveList))
               => Len(LiveList) = 0

C8_Witness ==
    /\ rpc = "done"
    /\ ~resolved.threw
    /\ Len(LiveList) >= 2
    /\ Len(resolved.list) >= 2
    /\ Range(resolved.list) # Range(LiveList)


\* ---------------------------------------------------------------------
\* The image cache as a store: round trip, overwrite, invalidate, errors
\* ---------------------------------------------------------------------

\* the read was made right after a successful write of the same key:
\* nothing ran in between, the clock included
ReadFollowsWrite ==
    /\ ReadHappened
    /\ readLog.fault = "none"
    /\ readLog.prev.op = "set"
    /\ readLog.prev.fault = "none"
    /\ readLog.prev.name = readLog.name

\* C11: setCachedImage(k, v) followed immediately by getCachedImage(k),
\* with storage working, returns v
C11_RoundTrip == ReadFollowsWrite => readLog.ret = readLog.prev.url

\* a read gives back url-b just written over an entry that held url-a
C11_Witness ==
    /\ ReadFollowsWrite
    /\ readLog.prev.before.kind = "json"
    /\ readLog.prev.before.url = "url-a"
    /\ readLog.ret = "url-b"

WriteHappened == lastOp.op = "set" /\ lastOp.fault = "none"

\* C12: setCachedImage(k, v) replaces whatever k held with
\* {url: v, timestamp: now, version: current}; after writes to one key in
\* any order the entry in storage is the one of the write that ran last
C12_LastWriteWins ==
    WriteHappened =>
        storage[lastOp.name] = [kind |-> "json", url |-> lastOp.url,
                                timestamp |-> now, version |-> CACHE_VERSION]

\* a write landed on a current entry that held the other URL
C12_Witness ==
    /\ WriteHappened
    /\ lastOp.before.kind = "json"
    /\ lastOp.before.version = CACHE_VERSION
    /\ lastOp.before.url # lastOp.url
    /\ storage[lastOp.name].url = lastOp.url

\* C13: clearCachedImage(k) removes the entry of k whether or not it is
\* valid, and a cache operation on k (read with eviction, write,
\* invalidate) leaves the entry of every other key as it was
C13_ClearAndKeyIndependence ==
    [][ /\ (lastOp'.op = "clear" /\ lastOp'.fault = "none"
              => storage'[lastOp'.name] = NoItem)
        /\ \A k \in Names : storage'[k] # storage[k] => lastOp'.name = k
      ]_vars

\* a valid entry was cleared while the other key held an entry, which is
\* still there
C13_Witness ==
    /\ lastOp.op = "clear"
    /\ lastOp.fault = "none"
    /\ lastOp.before.kind = "json"
    /\ lastOp.before.version = CACHE_VERSION
    /\ storage[lastOp.name] = NoItem
    /\ \E k \in Names : k # lastOp.name /\ storage[k].kind = "json"

\* C14: a storage error during a cache read, write or invalidate is a miss
\* or a no-op and is never raised to the caller
C14_BestEffort ==
    /\ raised = FALSE
    /\ (ReadHappened /\ (readLog.fault # "none" \/ readLog.found.kind = "corrupt")
          => readLog.ret = Null)
    /\ (lastOp.op \in {"set", "clear"} /\ lastOp.fault # "none"
          => Before(storage[lastOp.name]) = lastOp.before)

\* a write that hit a storage error left the entry that was there
C14_Witness ==
    /\ lastOp.op = "set"
    /\ lastOp.fault = "storage"
    /\ lastOp.before.kind = "json"
    /\ storage[lastOp.name].url # lastOp.url


\* ---------------------------------------------------------------------
\* Error responses of the handlers, and the shape of the fallback loop
\* ---------------------------------------------------------------------

\* the request is answered, no attempt gave a result, and every candidate
\* of a non-empty list was attempted
Exhausted ==
    /\ pc = "done"
    /\ result = NoResult
    /\ Len(modelNames) > 0
    /\ Len(attempts) = Len(modelNames)

\* C15: in each Gemini-backed handler, when every candidate has been tried
\* and failed, the response status is the one classifying the last
\* failure: 503 for an overloaded model, 404 for a model not found
C15_ExhaustionStatus ==
    handler \in GeminiHandlers /\ Exhausted /\ lastError.status \in {503, 404}
        => response.status = lastError.status

\* the response tells the caller to try again later
HasRetryHint(resp) == resp.kind = "Rate limit exceeded"

\* C16: in each Gemini-backed handler, when the loop ends without a result
\* and the last upstream failure was HTTP 429, the response has status 429
\* and carries a retry hint
C16_RateLimitSurfaced ==
    /\ handler \in GeminiHandlers
    /\ pc = "done"
    /\ result = NoResult
    /\ Len(attempts) > 0
    /\ lastError.status = 429
    => response.status = 429 /\ HasRetryHint(response)

\* the handlers that take a JSON body
JsonBodyHandlers == {"generate", "describe", "voice-coach", "tts", "image"}

\* no call left the handler: neither the model listing nor an attempt
NoExternalCall == rpc = "off" /\ attempts = <<>> /\ inflight = {}

\* C17: in every handler that takes a JSON body, a request whose body is
\* not parseable JSON is answered with a JSON error object of status 400,
\* and no external call is made
C17_MalformedBodyIs400 ==
    /\ handler \in JsonBodyHandlers
    /\ pc = "done"
    /\ request = "unparseable"
    /\ NoExternalCall
    => response.status = 400

\* C18 as claimed: in the tts loop an attempt is followed by another one
\* only if it failed with 404
C18_NextOnlyAfterNotFound ==
    handler = "tts" =>
        \A k \in 1..Len(attempts) :
            k < Len(attempts) => attempts[k].status = 404

\* C18: in the tts loop the next model is tried after every failure but a
\* 401: a failed attempt is followed by another one exactly if its status
\* is not 401 and a model is left
C18_NextUnlessUnauthorized ==
    handler = "tts" =>
        /\ \A k \in 1..Len(attempts) :
               k < Len(attempts) => attempts[k].status \notin {200, 401}
        /\ (/\ pc \in {"post", "done"}
            /\ Len(attempts) < Len(modelNames)
            => attempts[Len(attempts)].status \in {200, 401})

\* a 500 from the first model was followed by an attempt with the second
C18_Witness ==
    /\ handler = "tts"
    /\ Len(attempts) >= 2
    /\ attempts[1].status = 500
    /\ attempts[2].model = TtsModels[2]


\* every attempt made so far failed in a way the loop goes on from
AllRetryableFailures(n) ==
    \A k \in 1..n : /\ attempts[k].status # 200
                    /\ IsRetryable(handler, attempts[k].status)

\* C19: the candidates are attempted in list order, one at a time (the
\* next one is dispatched only after the one before completed with a
\* retryable failure), each position at most once, and the loop is over
\* after at most as many attempts as the list is long
C19_SequentialBounded ==
    /\ Len(attempts) <= Len(modelNames)
    /\ \A k \in 1..Len(attempts) :
           attempts[k].pos = k /\ attempts[k].model = modelNames[k]
    /\ AllRetryableFailures(Len(attempts) - 1)
    /\ Cardinality(inflight) <= 1
    /\ inflight \subseteq {Len(attempts) + 1}
    /\ (inflight # {} <=> pc = "inflight")
    /\ (inflight # {} => AllRetryableFailures(Len(attempts)))
    /\ (pc \in {"loop", "inflight"}
          => idx = Len(attempts) + 1 /\ idx <= Len(modelNames))

\* the last of at least three candidates is in flight, alone, after all
\* the ones before it failed
C19_Witness ==
    /\ pc = "inflight"
    /\ Len(modelNames) >= 3
    /\ inflight = {Len(modelNames)}
    /\ Len(attempts) = Len(modelNames) - 1

\* a candidate of generate answered, with a text that does not give the
\* expected structure
MalformedUpstream ==
    /\ handler = "generate"
    /\ pc = "done"
    /\ result # NoResult
    /\ ~(ParseGenerated(result).parsed /\ ParseGenerated(result).shaped)

\* the message of the response asks the caller to try again
AdvisesRetry(resp) ==
    resp.kind = "Failed to parse JSON from AI response. Please try again"

\* C20: when a candidate of generate succeeds but its text cannot be parsed
\* into the expected structure, the handler tries one repair of the text
\* and then answers 500 with a message advising a retry; no further
\* candidate is attempted
C20_MalformedUpstream ==
    MalformedUpstream =>
        /\ response.status = 500
        /\ AdvisesRetry(response)
        /\ ParseGenerated(result).extractions = 1
        /\ attempts[Len(attempts)].status = 200
        /\ attempts[Len(attempts)].payload = result


\* ---------------------------------------------------------------------
\* The resolver's ordering by family, and what it keeps of the live list
\* ---------------------------------------------------------------------

\* the place of an identifier in the claimed order, read off its name:
\* Gemini flash, Gemini pro, other Gemini, another vendor, Gemma, and
\* preview/experimental last
FamilyRank(m) ==
    IF TaggedPreview(m) THEN 6
    ELSE IF StartsWith(m, S_gemini) /\ Includes(m, S_flash) THEN 1
    ELSE IF StartsWith(m, S_gemini) /\ Includes(m, S_pro) THEN 2
    ELSE IF StartsWith(m, S_gemini) THEN 3
    ELSE IF StartsWith(m, S_gemma) THEN 5
    ELSE 4

\* C21: in the list getModelsToTry returns, Gemini flash identifiers stand
\* before Gemini pro ones, these before other Gemini ones, these before
\* stable ones of another vendor, these before Gemma ones, and preview
\* identifiers after all of them
C21_FamilyPriority ==
    (rpc = "done" /\ ~resolved.threw) =>
        \A i, j \in 1..Len(resolved.list) :
            i < j => FamilyRank(resolved.list[i]) <= FamilyRank(resolved.list[j])

\* a live list of three families, listed in another order than the
\* claimed one, came back whole
C21_Witness ==
    /\ rpc = "done"
    /\ ~resolved.threw
    /\ Len(LiveList) = Len(resolved.list)
    /\ Cardinality({FamilyRank(resolved.list[k]) : k \in 1..Len(resolved.list)}) >= 3
    /\ \E i, j \in 1..Len(LiveList) :
           i < j /\ FamilyRank(LiveList[i]) > FamilyRank(LiveList[j])

\* how often m occurs in the sequence s
Count(s, m) == Cardinality({k \in 1..Len(s) : s[k] = m})

\* C22: for a non-empty live list every identifier occurs in the list
\* getModelsToTry returns exactly as often as in the live list
C22_PartitionExact ==
    (rpc = "done" /\ ~resolved.threw /\ Len(LiveList) > 0) =>
        \A m \in Range(LiveList) \cup Range(resolved.list) :
            Count(resolved.list, m) = Count(LiveList, m)


\* ---------------------------------------------------------------------
\* The useExerciseImage hook
\* ---------------------------------------------------------------------

\* storage holds an entry for the name that getCachedImage accepts now
ValidEntry(name) ==
    /\ storage[name].kind = "json"
    /\ storage[name].version = CACHE_VERSION
    /\ now - storage[name].timestamp <= CACHE_EXPIRY_MS

\* the step is a call of fetchImage with a name that is not blank
FetchImageStep ==
    /\ calls' = calls + 1
    /\ lastCall'.op = "fetchImage"
    /\ lastCall'.name # ""

\* C23: when fetchImage finds a valid cache entry for the trimmed name it
\* sets url to the cached value with loading false and error null and
\* sends no request to /api/image; a request is sent only after a miss
C23_CacheHitAvoidsCall ==
    [][ /\ (FetchImageStep /\ ValidEntry(lastCall'.name)
              => /\ hook'.url = storage[lastCall'.name].url
                 /\ hook'.loading = FALSE
                 /\ hook'.error = Null
                 /\ requests' = requests
                 /\ issued' = issued)
        /\ (requests' \ requests # {}
              => FetchImageStep /\ ~ValidEntry(lastCall'.name))
      ]_vars

\* the second call found the entry the first call's request had cached,
\* and one request was sent in all
C23_Witness ==
    /\ calls = 2
    /\ lastCall.op = "fetchImage"
    /\ lastCall.hit = "url-b"
    /\ hook = HookState("url-b", FALSE, Null, "squats")
    /\ Len(issued) = 1
    /\ requests = {}

\* exactly two calls were made on the instance, fetchImage(A) and then
\* fetchImage(B) while A's request was in flight, and both requests
\* have completed
TwoOverlappingFetchesDone ==
    /\ calls = 2
    /\ Len(issued) = 2
    /\ issued[2].overlapping
    /\ issued[1].name # issued[2].name
    /\ requests = {}

\* C24: after fetchImage(A) and then fetchImage(B) with A's request still
\* in flight, once both requests have completed (in any order) the hook's
\* url is the image resolved for B, never A's
C24_LatestCallWins ==
    TwoOverlappingFetchesDone =>
        /\ hook.url # ImageOf(issued[1].name)
        /\ (issued[2].outcome = "ok" => hook.url = ImageOf(issued[2].name))

\* C25: loading is true whenever a request of the instance has not yet
\* completed
C25_LoadingTracksRequests == requests # {} => hook.loading = TRUE

\* C26: the hook state never has url and error non-null together
C26_UrlErrorExclusive == ~(hook.url # Null /\ hook.error # Null)

\* C27: fetchImage writes a cache entry only after an ok response with a
\* non-empty URL; a call that ends with error set (non-ok response, no
\* URL, network failure, empty name) writes nothing
C27_CacheWrittenOnlyOnSuccess ==
    [][ /\ ((\E n \in Names : storage'[n] # storage[n] /\ storage'[n] # NoItem)
              => /\ requests' # requests
                 /\ lastCall'.op = "complete"
                 /\ lastCall'.outcome = "ok"
                 /\ storage'[lastCall'.name].url = ImageOf(lastCall'.name)
                 /\ \A n \in Names : n # lastCall'.name => storage'[n] = storage[n])
        /\ (requests' # requests /\ lastCall'.op = "complete"
              /\ lastCall'.outcome # "ok"
              => storage' = storage /\ hook'.error # Null)
        /\ (calls' # calls /\ lastCall'.op = "fetchImage" /\ lastCall'.name = ""
              => storage' = storage /\ hook'.error # Null)
      ]_vars

\* of two requests the first was cached on success and the second, which
\* failed, left no entry for its name
C27_Witness ==
    /\ calls = 2
    /\ Len(issued) = 2
    /\ requests = {}
    /\ issued[1].outcome = "ok"
    /\ issued[2].outcome \in {"okNoUrl", "notOk", "network", "badJson"}
    /\ issued[1].name # issued[2].name
    /\ storage[issued[1].name].url = ImageOf(issued[1].name)
    /\ storage[issued[2].name] = NoItem
    /\ hook.error # Null


\* ---------------------------------------------------------------------
\* The four Gemini loops compared, and attempts before a failure
\* ---------------------------------------------------------------------

\* would the loop of handler h go on to the next candidate after an
\* attempt that ended with this status (200: it returned a result)
GoesOn(h, status) == status # 200 /\ IsRetryable(h, status)

\* C28: on the same candidate list and the same outcomes per candidate
\* (success, or failure with some HTTP status, 429 included) generate,
\* describe, analyze and voice-coach attempt the same candidates and stop
\* at the same position: wherever the handler of this run went on or
\* stopped with candidates left, each of the other three does the same
C28_LoopsEquivalent ==
    handler \in GeminiHandlers =>
        \A h \in GeminiHandlers :
            \A k \in 1..Len(attempts) :
                k < Len(modelNames)
                    => (GoesOn(h, attempts[k].status)
                            <=> GoesOn(handler, attempts[k].status))

\* C29: once a Gemini handler has accepted the request (valid input, key
\* configured), an error response is produced only after at least one
\* candidate was attempted
C29_AttemptBeforeFailure ==
    /\ handler \in GeminiHandlers
    /\ request = "valid"
    /\ pc = "done"
    /\ response.status # 200
    => Len(attempts) >= 1


\* ---------------------------------------------------------------------
\* The image route's chain of providers
\* ---------------------------------------------------------------------

====
